---- MODULE Spec2Model ----
(***************************************************************************)
(* lifekline: the Ba Zi form (components/BaziForm) and the analysis        *)
(* service (services/geminiService.ts, generateLifeAnalysis).              *)
(*                                                                         *)
(* Strings are sequences of characters.  A character is written by name:   *)
(* the ten stems are "jia" (甲) "yi" (乙) "bing" (丙) "ding" (丁) "wu" (戊) *)
(* "ji" (己) "geng" (庚) "xin" (辛) "ren" (壬) "gui" (癸); "zi" is the      *)
(* branch 子, "ce" is 测 (a non-ASCII character pasted into a key); every   *)
(* other name is the ASCII character itself.                               *)
(***************************************************************************)
EXTENDS Integers, Sequences, FiniteSets, TLC

VARIABLES formData, formErrors, submitted,
          pc, input, request, calls, response, result, error

formVars == <<formData, formErrors, submitted>>
runVars == <<pc, input, request, calls, response, result, error>>
vars == <<formData, formErrors, submitted,
          pc, input, request, calls, response, result, error>>

(***************************************************************************)
(* Bounds of the model.                                                    *)
(***************************************************************************)
MaxPillarLen == 2
MaxAgeLen == 3
MaxConfigLen == 2
MaxPresent == 1

(***************************************************************************)
(* Characters and strings.                                                 *)
(***************************************************************************)
yangStems == {"jia", "bing", "wu", "geng", "ren"}
yinStems == {"yi", "ding", "ji", "xin", "gui"}
Digits == {"0", "1", "2", "3", "4", "5", "6", "7", "8", "9"}

\* The UTF-16 code unit of a character.
CharCode(c) ==
    CASE c = " " -> 32
      [] c = "-" -> 45
      [] c = "/" -> 47
      [] c = "0" -> 48
      [] c = "1" -> 49
      [] c = "2" -> 50
      [] c = "3" -> 51
      [] c = "4" -> 52
      [] c = "5" -> 53
      [] c = "6" -> 54
      [] c = "7" -> 55
      [] c = "8" -> 56
      [] c = "9" -> 57
      [] c = "a" -> 97
      [] c = "g" -> 103
      [] c = "h" -> 104
      [] c = "k" -> 107
      [] c = "m" -> 109
      [] c = "s" -> 115
      [] c = "ding" -> 19969
      [] c = "yi" -> 20057
      [] c = "bing" -> 19993
      [] c = "ren" -> 22764
      [] c = "zi" -> 23376
      [] c = "ji" -> 24049
      [] c = "geng" -> 24218
      [] c = "wu" -> 25098
      [] c = "ce" -> 27979
      [] c = "gui" -> 30328
      [] c = "jia" -> 30002
      [] c = "xin" -> 36763

\* White space as String.prototype.trim and parseInt see it (the characters
\* of the model's alphabet that are white space).
IsWhiteSpace(c) == CharCode(c) = 32

\* All strings over the alphabet A of length at most n.
RECURSIVE Strings(_, _)
Strings(A, n) ==
    IF n = 0 THEN {<<>>}
    ELSE LET shorter == Strings(A, n - 1)
         IN  shorter \cup {Append(s, c) : s \in {t \in shorter : Len(t) = n - 1}, c \in A}

RECURSIVE trimStart(_)
trimStart(s) ==
    IF s # <<>> /\ IsWhiteSpace(Head(s)) THEN trimStart(Tail(s)) ELSE s

RECURSIVE trimEnd(_)
trimEnd(s) ==
    IF s # <<>> /\ IsWhiteSpace(s[Len(s)])
    THEN trimEnd(SubSeq(s, 1, Len(s) - 1))
    ELSE s

\* String.prototype.trim
trim(s) == trimEnd(trimStart(s))

\* String.prototype.charAt(0): the empty string when there is no character.
charAt0(s) == IF s = <<>> THEN <<>> ELSE <<Head(s)>>

\* s.replace(/\/+$/, ""): the trailing run of slashes removed.
RECURSIVE stripTrailingSlashes(_)
stripTrailingSlashes(s) ==
    IF s # <<>> /\ s[Len(s)] = "/"
    THEN stripTrailingSlashes(SubSeq(s, 1, Len(s) - 1))
    ELSE s

hasNonAscii_never(s) == FALSE

\* /[^\x00-\x7F]/.test(s)
hasNonAscii(s) == \E i \in 1..Len(s) : CharCode(s[i]) > 127

(***************************************************************************)
(* A user input is a function from the fields that are present to their    *)
(* values; a field that is absent reads as undefined.  The fields that     *)
(* only appear as text of the prompt (name, birthYear, monthPillar,        *)
(* dayPillar, hourPillar, firstDaYun) are left out.                        *)
(***************************************************************************)
Has(in, f) == f \in DOMAIN in

\* JavaScript truthiness of an optional string field.
TruthyField(in, f) == Has(in, f) /\ in[f] # <<>>

getStemPolarity_fallbackYin(in) ==
    IF ~TruthyField(in, "yearPillar") THEN "YANG"
    ELSE LET firstChar == charAt0(trim(in.yearPillar))
         IN  IF \E c \in yangStems : firstChar = <<c>> THEN "YANG"
             ELSE "YIN"

\* getStemPolarity(input.yearPillar)
getStemPolarity(in) ==
    IF ~TruthyField(in, "yearPillar") THEN "YANG"
    ELSE LET firstChar == charAt0(trim(in.yearPillar))
         IN  IF \E c \in yangStems : firstChar = <<c>> THEN "YANG"
             ELSE IF \E c \in yinStems : firstChar = <<c>> THEN "YIN"
             ELSE "YANG"

isForward_anyGender(in) == getStemPolarity(in) = "YANG"

\* isForward of generateLifeAnalysis
isForward(in) ==
    IF in.gender = "MALE"
    THEN getStemPolarity(in) = "YANG"
    ELSE getStemPolarity(in) = "YIN"

\* daYunDirectionStr: 顺行 (Forward) or 逆行 (Backward)
daYunDirectionStr(in) ==
    IF isForward(in) THEN "shunXing (Forward)" ELSE "niXing (Backward)"


(***************************************************************************)
(* parseInt(input.startAge) || 1 and the age bands of the prompt.          *)
(***************************************************************************)
\* The longest prefix of s made of decimal digits.
RECURSIVE digitPrefix(_)
digitPrefix(s) ==
    IF s # <<>> /\ Head(s) \in Digits THEN <<Head(s)>> \o digitPrefix(Tail(s)) ELSE <<>>

\* The value of a string of decimal digits.
RECURSIVE digitsValue(_)
digitsValue(d) ==
    IF d = <<>> THEN 0
    ELSE 10 * digitsValue(SubSeq(d, 1, Len(d) - 1)) + (CharCode(d[Len(d)]) - CharCode("0"))

\* parseInt(s): leading white space skipped, an optional sign, then the
\* digits up to the first character that is none; NaN when there is no digit.
parseInt(s) ==
    LET t == trimStart(s)
        negative == t # <<>> /\ Head(t) = "-"
        d == digitPrefix(IF negative THEN Tail(t) ELSE t)
    IN  IF d = <<>> THEN [nan |-> TRUE, n |-> 0]
        ELSE [nan |-> FALSE, n |-> IF negative THEN 0 - digitsValue(d) ELSE digitsValue(d)]

\* const startAgeInt = parseInt(input.startAge) || 1  (NaN and 0 are falsy)
startAgeInt(in) ==
    LET r == parseInt(in.startAge)
    IN  IF r.nan \/ r.n = 0 THEN 1 ELSE r.n

\* The bands the prompt spells out with literal integers: "Age 1 to s-1",
\* "Age s to s+9", "Age s+10 to s+19", "Age s+20 to s+29"; the rest is left
\* to the words "and so on until age 100".
promptBands(s) ==
    << [lo |-> 1, hi |-> s - 1, daYun |-> "tongXian"],
       [lo |-> s, hi |-> s + 9, daYun |-> "step1"],
       [lo |-> s + 10, hi |-> s + 19, daYun |-> "step2"],
       [lo |-> s + 20, hi |-> s + 29, daYun |-> "step3"] >>

(***************************************************************************)
(* The API configuration.                                                  *)
(***************************************************************************)
\* "[O]gemini-3-pro-preview", abbreviated to one character.
DefaultModel == <<"g">>

cleanApiKey(in) == IF TruthyField(in, "apiKey") THEN trim(in.apiKey) ELSE <<>>

cleanBaseUrl(in) ==
    IF TruthyField(in, "apiBaseUrl")
    THEN stripTrailingSlashes(trim(in.apiBaseUrl))
    ELSE <<>>

targetModel_asGiven(in) == IF Has(in, "modelName") THEN trim(in.modelName) ELSE <<>>

targetModel(in) ==
    IF TruthyField(in, "modelName") /\ trim(in.modelName) # <<>>
    THEN trim(in.modelName)
    ELSE DefaultModel

\* Errors are the Error objects of the code: the constructor's name and the
\* message (in English here), with the status and body an HTTP failure carries.
NoBody == [json |-> FALSE, text |-> "", value |-> [t |-> "undefined", v |-> 0]]
ErrorOf(name, message) == [name |-> name, message |-> message, status |-> 0, errText |-> NoBody]
NoError == ErrorOf("", "")
ApiKeyRequired == ErrorOf("Error", "please fill in a valid API Key")
ApiKeyIllegalChars == ErrorOf("Error", "API Key contains illegal characters")
BaseUrlRequired == ErrorOf("Error", "please fill in a valid API Base URL")

\* Lines 26-38: the error the configuration checks throw, NoError when none.
configError(in) ==
    IF cleanApiKey(in) = <<>> THEN ApiKeyRequired
    ELSE IF hasNonAscii(cleanApiKey(in)) THEN ApiKeyIllegalChars
    ELSE IF cleanBaseUrl(in) = <<>> THEN BaseUrlRequired
    ELSE NoError

\* What the outbound call carries: the URL, the bearer credential, the model
\* and, of the prompt, the parts computed from the input.
NoRequest == [sent |-> FALSE]
buildRequest(in) ==
    [sent |-> TRUE,
     url |-> cleanBaseUrl(in) \o <<"/", "chat/completions">>,
     authorization |-> cleanApiKey(in),
     model |-> targetModel(in),
     genderStr |-> IF in.gender = "MALE" THEN "male (qian zao)" ELSE "female (kun zao)",
     yearStemPolarity |-> getStemPolarity(in),
     daYunDirectionStr |-> daYunDirectionStr(in),
     startAgeInt |-> startAgeInt(in),
     bands |-> promptBands(startAgeInt(in))]

(***************************************************************************)
(* JavaScript values of the oracle's response: a tag t and a value v.  A   *)
(* string is its text and what JSON.parse makes of it.                     *)
(***************************************************************************)
JSUndefined == [t |-> "undefined", v |-> 0]
JSNull == [t |-> "null", v |-> 0]
JSNum(n) == [t |-> "number", v |-> n]
JSArr(seq) == [t |-> "array", v |-> seq]
JSObj(fields) == [t |-> "object", v |-> fields]
NoParse == [ok |-> FALSE, value |-> JSUndefined]
\* A string that is no JSON text.
JSStr(text) == [t |-> "string", v |-> [text |-> text, parse |-> NoParse]]
\* The JSON text of the value d (JSON.stringify(d)).
JSONText(d) == [t |-> "string", v |-> [text |-> "json", parse |-> [ok |-> TRUE, value |-> d]]]

\* ToBoolean: undefined, null, 0 and "" are falsy (false and NaN do not occur
\* in JSON numbers and are not among the values of the model).
Truthy(x) ==
    CASE x.t \in {"undefined", "null"} -> FALSE
      [] x.t = "number" -> x.v # 0
      [] x.t = "string" -> x.v.text # ""
      [] OTHER -> TRUE

\* a || b
Or(a, b) == IF Truthy(a) THEN a ELSE b

\* x.key for an x that is neither undefined nor null.
Get(x, key) ==
    IF x.t = "object" /\ key \in DOMAIN x.v THEN x.v[key] ELSE JSUndefined

\* x?.key
OptGet(x, key) == IF x.t \in {"undefined", "null"} THEN JSUndefined ELSE Get(x, key)

\* x?.[0]
OptFirst(x) == IF x.t = "array" /\ Len(x.v) >= 1 THEN x.v[1] ELSE JSUndefined

\* JSON.parse(x): a string by its text; a number is first turned into its
\* decimal text, which parses to itself; an object into "[object Object]".
JSONparse(x) ==
    CASE x.t = "string" -> x.v.parse
      [] x.t = "number" -> [ok |-> TRUE, value |-> x]
      [] OTHER -> NoParse

\* Array.isArray(x)
isArray(x) == x.t = "array"

ScoreFields ==
    {"summaryScore", "personalityScore", "industryScore", "fengShuiScore",
     "wealthScore", "marriageScore", "healthScore", "familyScore", "cryptoScore"}
NarrativeFields ==
    {"summary", "personality", "industry", "fengShui", "wealth", "marriage",
     "health", "family", "crypto", "cryptoYear", "cryptoStyle"}
AnalysisFields == {"bazi"} \cup NarrativeFields \cup ScoreFields

\* The right-hand sides of the || of lines 145-166 (the texts in English).
Default(f) ==
    CASE f = "bazi" -> JSArr(<<>>)
      [] f = "summary" -> JSStr("no summary")                    \* 无摘要
      [] f = "personality" -> JSStr("no personality analysis")   \* 无性格分析
      [] f = "fengShui" -> JSStr("stay close to nature, keep a peaceful mind")
      [] f = "crypto" -> JSStr("no trading analysis yet")        \* 暂无交易分析
      [] f = "cryptoYear" -> JSStr("to be determined")           \* 待定
      [] f = "cryptoStyle" -> JSStr("spot dollar-cost averaging") \* 现货定投
      [] f \in {"industry", "wealth", "marriage", "health", "family"} -> JSStr("none") \* 无
      [] f \in ScoreFields -> JSNum(5)

NoResult == [returned |-> FALSE]

\* Lines 142-168: the result built from the parsed payload.
buildResult(data) ==
    [returned |-> TRUE,
     chartData |-> Get(data, "chartPoints"),
     analysis |-> [f \in AnalysisFields |-> Or(Get(data, f), Default(f))]]

FetchFailed == ErrorOf("TypeError", "Failed to fetch")
BodyNotJson == ErrorOf("SyntaxError", "response body is not valid JSON")
NullProperty == ErrorOf("TypeError", "Cannot read properties of null")
NoContent == ErrorOf("Error", "the model returned no content")
ContentNotJson == ErrorOf("SyntaxError", "content is not valid JSON")
ChartPointsMissing == ErrorOf("Error", "the data format is incorrect (chartPoints missing)")
ApiRequestFailed(status, errText) ==
    [name |-> "Error", message |-> "API request failed", status |-> status, errText |-> errText]

Outcome(res, err) == [result |-> res, error |-> err]

validate_noCheck(data) ==
    IF data.t = "null" THEN Outcome(NoResult, NullProperty)
    ELSE Outcome(buildResult(data), NoError)

\* Lines 137-168: the check of chartPoints, then the result.
validate(data) ==
    IF data.t = "null" THEN Outcome(NoResult, NullProperty)
    ELSE IF ~Truthy(Get(data, "chartPoints")) \/ ~isArray(Get(data, "chartPoints"))
    THEN Outcome(NoResult, ChartPointsMissing)
    ELSE Outcome(buildResult(data), NoError)

\* Lines 127-168, after response.json() has settled on the body.
afterJson(body) ==
    IF ~body.json THEN Outcome(NoResult, BodyNotJson)
    ELSE IF body.value.t = "null" THEN Outcome(NoResult, NullProperty)
    ELSE LET content == OptGet(OptGet(OptFirst(Get(body.value, "choices")), "message"), "content")
         IN  IF ~Truthy(content) THEN Outcome(NoResult, NoContent)
             ELSE IF ~JSONparse(content).ok THEN Outcome(NoResult, ContentNotJson)
             ELSE validate(JSONparse(content).value)

catch_wrap(e) == ErrorOf("Error", "analysis failed")

\* Lines 169-172: the error is logged and thrown again.
catch(e) == e

(***************************************************************************)
(* generateLifeAnalysis as a process: pc is "idle" before the call,        *)
(* "fetch" while fetch() is awaited, "text" while response.text() is       *)
(* awaited, "json" while response.json() is awaited, and "returned" or     *)
(* "thrown" once the promise has settled.  calls counts the calls of       *)
(* fetch().                                                                *)
(***************************************************************************)
NoInput == [none |-> TRUE]
NoResponse == [ok |-> FALSE, status |-> 0, body |-> NoBody]

With(in, f, val) == [g \in DOMAIN in \cup {f} |-> IF g = f THEN val ELSE in[g]]
Without(in, f) == [g \in DOMAIN in \ {f} |-> in[g]]

\* Lines 17-105: the configuration checks, the prompt, and the call of fetch.
Start(in) ==
    /\ pc = "idle"
    /\ input' = in
    /\ IF configError(in) # NoError
       THEN /\ pc' = "thrown"
            /\ error' = configError(in)
            /\ UNCHANGED <<request, calls>>
       ELSE /\ pc' = "fetch"
            /\ request' = buildRequest(in)
            /\ calls' = calls + 1
            /\ UNCHANGED error
    /\ UNCHANGED <<response, result>>

\* A call of the exported function with any input of the set I.
generateLifeAnalysis(I) ==
    /\ pc = "idle"
    /\ \E in \in I : Start(in)
    /\ UNCHANGED formVars

\* fetch() rejects (the network fails): the catch block throws the error on.
FetchRejects ==
    /\ pc = "fetch"
    /\ pc' = "thrown"
    /\ error' = catch(FetchFailed)
    /\ UNCHANGED <<input, request, calls, response, result>>
    /\ UNCHANGED formVars

\* fetch() resolves with a response of the set R: lines 122-127 up to the
\* next await.
FetchResolves(R) ==
    /\ pc = "fetch"
    /\ \E r \in R :
          /\ response' = r
          /\ pc' = IF r.ok THEN "json" ELSE "text"
    /\ UNCHANGED <<input, request, calls, result, error>>
    /\ UNCHANGED formVars

\* response.text() resolves: line 124 throws, the catch block throws it on.
TextResolves ==
    /\ pc = "text"
    /\ pc' = "thrown"
    /\ error' = catch(ApiRequestFailed(response.status, response.body))
    /\ UNCHANGED <<input, request, calls, response, result>>
    /\ UNCHANGED formVars

\* response.json() settles: lines 127-168, and the catch block on a throw.
JsonSettles ==
    /\ pc = "json"
    /\ LET out == afterJson(response.body)
       IN  IF out.error # NoError
           THEN /\ pc' = "thrown"
                /\ error' = catch(out.error)
                /\ UNCHANGED result
           ELSE /\ pc' = "returned"
                /\ result' = out.result
                /\ UNCHANGED error
    /\ UNCHANGED <<input, request, calls, response>>
    /\ UNCHANGED formVars

(***************************************************************************)
(* The form.  formErrors is the set of the fields that carry a message.    *)
(***************************************************************************)
NotSubmitted == [none |-> TRUE]

InitialFormData ==
    [gender |-> "MALE", yearPillar |-> <<>>, startAge |-> <<>>,
     modelName |-> DefaultModel, apiBaseUrl |-> <<"h">>, apiKey |-> <<"s", "k">>]

ApiFields == {"apiBaseUrl", "apiKey", "modelName"}

\* handleChange for the field name and the typed value.
handleChange(name, value) ==
    /\ formData' = [formData EXCEPT ![name] = value]
    /\ formErrors' = IF name \in ApiFields THEN formErrors \ {name} ELSE formErrors
    /\ UNCHANGED submitted
    /\ UNCHANGED runVars

\* The two gender buttons.
setGender(g) ==
    /\ formData' = [formData EXCEPT !.gender = g]
    /\ UNCHANGED <<formErrors, submitted>>
    /\ UNCHANGED runVars

\* The browser's own validation of the inputs marked required (yearPillar)
\* and of startAge (required, type number, min 1, max 100): the submit event
\* is not dispatched unless it passes.
constraintsValid(fd) ==
    /\ fd.yearPillar # <<>>
    /\ ~parseInt(fd.startAge).nan
    /\ parseInt(fd.startAge).n >= 1
    /\ parseInt(fd.startAge).n <= 100

\* errors of handleSubmit
submitErrors(fd) == {f \in ApiFields : trim(fd[f]) = <<>>}

\* handleSubmit; the submit button is disabled while isLoading.
handleSubmit ==
    /\ pc = "idle"
    /\ constraintsValid(formData)
    /\ IF submitErrors(formData) # {}
       THEN /\ formErrors' = submitErrors(formData)
            /\ UNCHANGED submitted
       ELSE /\ submitted' = formData
            /\ UNCHANGED formErrors
    /\ UNCHANGED formData
    /\ UNCHANGED runVars

\* The owner of the form passes the submitted data to generateLifeAnalysis.
onSubmit ==
    /\ submitted # NotSubmitted
    /\ Start(submitted)
    /\ UNCHANGED formVars

daYunDirectionInfo_yangOnly(fd) ==
    IF fd.yearPillar = <<>> THEN "waiting for the year pillar"
    ELSE LET firstChar == charAt0(trim(fd.yearPillar))
             isYangYear == \E c \in yangStems : firstChar = <<c>>
             forward == IF fd.gender = "MALE" THEN isYangYear ELSE ~isYangYear
         IN  IF forward THEN "shunXing (yangNan/yinNu)" ELSE "niXing (yinNan/yangNu)"

\* const daYunDirectionInfo = useMemo(...)
\* The texts are 等待输入年柱..., 顺行 (阳男/阴女) and 逆行 (阴男/阳女).
daYunDirectionInfo(fd) ==
    IF fd.yearPillar = <<>> THEN "waiting for the year pillar"
    ELSE LET firstChar == charAt0(trim(fd.yearPillar))
             isYangYear == ~(\E c \in yinStems : firstChar = <<c>>)
             forward == IF fd.gender = "MALE" THEN isYangYear ELSE ~isYangYear
         IN  IF forward THEN "shunXing (yangNan/yinNu)" ELSE "niXing (yinNan/yangNu)"

Init ==
    /\ formData = InitialFormData
    /\ formErrors = {}
    /\ submitted = NotSubmitted
    /\ pc = "idle"
    /\ input = NoInput
    /\ request = NoRequest
    /\ calls = 0
    /\ response = NoResponse
    /\ result = NoResult
    /\ error = NoError

(***************************************************************************)
(* The inputs and the responses the specifications draw from.              *)
(***************************************************************************)
Genders == {"MALE", "FEMALE"}
PillarChars == yangStems \cup yinStems \cup {"zi", " "}
AgeChars == Digits \cup {"-", "a", " "}
KeyChars == {"s", "ce", " "}
UrlChars == {"h", "/", " "}
ModelChars == {"m", " "}

BaseInput ==
    [gender |-> "MALE", yearPillar |-> <<"jia", "zi">>, startAge |-> <<"5">>,
     modelName |-> <<"m">>, apiBaseUrl |-> <<"h">>, apiKey |-> <<"s", "k">>]

\* A field set to each of the values, or absent.
Optional(in, f, values) == {With(in, f, x) : x \in values} \cup {Without(in, f)}

\* Every year pillar of at most n characters, or none, for each gender.
DirectionInputs(n) ==
    UNION {Optional(With(BaseInput, "gender", g), "yearPillar",
                    Strings(PillarChars, n)) : g \in Genders}

\* Every startAge string of at most n characters.
AgeInputs(n) == {With(BaseInput, "startAge", a) : a \in Strings(AgeChars, n)}

\* Every key, base URL and model of at most n characters, or none.
ConfigInputs(n) ==
    UNION {UNION {Optional(b, "modelName", Strings(ModelChars, n))
                    : b \in Optional(a, "apiBaseUrl", Strings(UrlChars, n))}
             : a \in Optional(BaseInput, "apiKey", Strings(KeyChars, n))}

\* Calls that do not come from the form, next to the form's own.
DirectInputs ==
    Optional(BaseInput, "modelName", {<<>>, <<" ">>}) \cup {With(BaseInput, "apiKey", <<" ">>)}

ValidateInputs == {BaseInput, Without(BaseInput, "apiBaseUrl")}

Merge(f, g) == [k \in DOMAIN f \cup DOMAIN g |-> IF k \in DOMAIN f THEN f[k] ELSE g[k]]

chartPoint == JSObj([k \in {"age"} |-> JSNum(1)])
SampleValues == {JSNull, JSNum(0), JSNum(8), JSStr(""), JSStr("text"), JSArr(<<>>)}
ChartPointsChoices ==
    {<<>>} \cup {[k \in {"chartPoints"} |-> x]
                   : x \in SampleValues \cup {JSArr(<<chartPoint>>), JSObj(<<>>)}}

\* The sets of at most n analysis fields.
RECURSIVE FieldSets(_)
FieldSets(n) ==
    IF n = 0 THEN {{}}
    ELSE FieldSets(n - 1) \cup {S \cup {f} : S \in FieldSets(n - 1), f \in AnalysisFields}

\* A payload with every field present and of the expected type.
FullPayload ==
    JSObj(Merge([k \in {"chartPoints"} |-> JSArr(<<chartPoint>>)],
                [f \in AnalysisFields |->
                    IF f = "bazi" THEN JSArr(<<JSStr("text")>>)
                    ELSE IF f \in ScoreFields THEN JSNum(8) ELSE JSStr("text")]))

\* The payloads that are no object, the full one, and every object with
\* any chartPoints and at most n analysis fields of any sample value.
ValidatePayloads(n) ==
    {JSNull, JSNum(8), JSStr("text"), JSArr(<<>>), FullPayload}
    \cup {JSObj(Merge(cp, a)) : cp \in ChartPointsChoices,
                                a \in UNION {[S -> SampleValues] : S \in FieldSets(n)}}

BodyOf(value) == [json |-> TRUE, text |-> "json", value |-> value]
HtmlBody == [json |-> FALSE, text |-> "html", value |-> JSUndefined]
Field(k, x) == [f \in {k} |-> x]
\* {"choices": [{"message": {"content": c}}]}
ChatBody(c) ==
    BodyOf(JSObj(Field("choices", JSArr(<<JSObj(Field("message", JSObj(Field("content", c))))>>))))

EnvelopeBodies ==
    {HtmlBody, BodyOf(JSNull), BodyOf(JSObj(<<>>)),
     BodyOf(JSObj(Field("choices", JSArr(<<>>)))),
     BodyOf(JSObj(Field("choices", JSArr(<<JSObj(<<>>)>>)))),
     BodyOf(JSObj(Field("choices", JSArr(<<JSObj(Field("message", JSObj(<<>>)))>>)))),
     ChatBody(JSNull), ChatBody(JSStr("")), ChatBody(JSStr("text"))}

Ok(body) == [ok |-> TRUE, status |-> 200, body |-> body]
Failed(status, body) == [ok |-> FALSE, status |-> status, body |-> body]

BasicResponses ==
    {Ok(b) : b \in EnvelopeBodies}
    \cup {Ok(ChatBody(JSONText(FullPayload))), Ok(ChatBody(JSONText(JSObj(<<>>))))}
    \cup {Failed(401, BodyOf(JSObj(<<>>))), Failed(500, HtmlBody)}

ValidateResponses(n) ==
    BasicResponses \cup {Ok(ChatBody(JSONText(d))) : d \in ValidatePayloads(n)}

FormValues(name) ==
    CASE name = "yearPillar" -> {<<>>, <<"yi", "zi">>}
      [] name = "startAge" -> {<<>>, <<"5">>}
      [] name = "modelName" -> {<<>>, <<" ">>, DefaultModel}
      [] name = "apiBaseUrl" -> {<<>>, <<"h">>}
      [] name = "apiKey" -> {<<" ">>, <<"s", "k">>}

(***************************************************************************)
(* The specifications.                                                     *)
(***************************************************************************)
\* The configuration: calls with every combination of key, URL and model.
Next ==
    \/ generateLifeAnalysis(ConfigInputs(MaxConfigLen))
    \/ FetchRejects
    \/ FetchResolves(BasicResponses)
    \/ TextResolves
    \/ JsonSettles

Spec == Init /\ [][Next]_vars

\* The direction: calls with every year pillar and gender.
NextDirection ==
    \/ generateLifeAnalysis(DirectionInputs(MaxPillarLen))
    \/ FetchRejects
    \/ FetchResolves(BasicResponses)
    \/ TextResolves
    \/ JsonSettles

SpecDirection == Init /\ [][NextDirection]_vars

\* The start age: calls with every startAge string.
NextAge ==
    \/ generateLifeAnalysis(AgeInputs(MaxAgeLen))
    \/ FetchRejects
    \/ FetchResolves(BasicResponses)
    \/ TextResolves
    \/ JsonSettles

SpecAge == Init /\ [][NextAge]_vars

\* The validation: responses with every payload.
NextValidate ==
    \/ generateLifeAnalysis(ValidateInputs)
    \/ FetchRejects
    \/ FetchResolves(ValidateResponses(MaxPresent))
    \/ TextResolves
    \/ JsonSettles

SpecValidate == Init /\ [][NextValidate]_vars

\* The form, its owner's call of the service, and calls from elsewhere.
NextForm ==
    \/ \E name \in {"yearPillar", "startAge", "modelName", "apiBaseUrl", "apiKey"} :
          \E value \in FormValues(name) : handleChange(name, value)
    \/ \E g \in Genders : setGender(g)
    \/ handleSubmit
    \/ onSubmit
    \/ generateLifeAnalysis(DirectInputs)
    \/ FetchRejects
    \/ FetchResolves(BasicResponses)
    \/ TextResolves
    \/ JsonSettles

SpecForm == Init /\ [][NextForm]_vars

(***************************************************************************)
(* The claims.  Their vocabulary is written out here, apart from the       *)
(* definitions above.                                                      *)
(***************************************************************************)
YangSet == {"jia", "bing", "wu", "geng", "ren"}
YinSet == {"yi", "ding", "ji", "xin", "gui"}
Forward == "shunXing (Forward)"
Backward == "niXing (Backward)"

\* The direction the rule of yang-male / yin-female gives.
RuleDirection(gender, polarity) ==
    IF (gender = "MALE" /\ polarity = "YANG") \/ (gender = "FEMALE" /\ polarity = "YIN")
    THEN Forward
    ELSE Backward

\* A string that is empty or all spaces.
Blank(s) == \A i \in 1..Len(s) : s[i] = " "

\* The call went out: the request of this run was built and sent.
Sent == pc # "idle" /\ request.sent

\* C1: for a year pillar whose first character is one of the ten stems, the
\* direction in the request is Forward exactly when the gender is MALE and
\* the stem is Yang or the gender is FEMALE and the stem is Yin, and Backward
\* in every other case.
C1_DirectionRule ==
    (/\ Sent
     /\ Has(input, "yearPillar")
     /\ input.yearPillar # <<>>
     /\ Head(input.yearPillar) \in YangSet \cup YinSet)
    => /\ request.daYunDirectionStr \in {Forward, Backward}
       /\ request.daYunDirectionStr = Forward
            <=> \/ input.gender = "MALE" /\ Head(input.yearPillar) \in YangSet
                \/ input.gender = "FEMALE" /\ Head(input.yearPillar) \in YinSet

C1_Witness ==
    /\ Sent
    /\ input.gender = "FEMALE"
    /\ Has(input, "yearPillar")
    /\ input.yearPillar = <<"xin", "zi">>
    /\ request.daYunDirectionStr = Forward

\* The first character of s that is no space, as a string; empty if none.
RECURSIVE FirstAfterSpaces(_)
FirstAfterSpaces(s) ==
    IF s = <<>> THEN <<>>
    ELSE IF Head(s) = " " THEN FirstAfterSpaces(Tail(s))
    ELSE <<Head(s)>>

\* The polarity the year pillar of the input stands for: Yin for a Yin stem
\* after the leading spaces, Yang for everything else.
ClaimedPolarity(in) ==
    IF Has(in, "yearPillar") /\ (\E c \in YinSet : FirstAfterSpaces(in.yearPillar) = <<c>>)
    THEN "YIN"
    ELSE "YANG"

\* C8: the direction depends only on the gender and on the first character
\* of the trimmed year pillar: an empty, blank or stemless pillar resolves as
\* a Yang stem does, and spaces added before or after the pillar never change
\* the direction.
C8_TrimmedFirstCharOnly ==
    Sent =>
        /\ request.daYunDirectionStr = RuleDirection(input.gender, ClaimedPolarity(input))
        /\ Has(input, "yearPillar") =>
             /\ daYunDirectionStr(With(input, "yearPillar", <<" ">> \o input.yearPillar))
                  = request.daYunDirectionStr
             /\ daYunDirectionStr(With(input, "yearPillar", input.yearPillar \o <<" ">>))
                  = request.daYunDirectionStr

C8_Witness ==
    /\ Sent
    /\ input.gender = "MALE"
    /\ Has(input, "yearPillar")
    /\ input.yearPillar = <<" ", "yi">>
    /\ request.daYunDirectionStr = Backward

\* The direction a text shown by the form stands for.
ShownDirection(text) ==
    CASE text = "shunXing (yangNan/yinNu)" -> Forward
      [] text = "niXing (yinNan/yangNu)" -> Backward
      [] OTHER -> "none"

\* C10: for a non-empty year pillar and either gender, the direction the
\* form shows for the input is the direction the request carries.
C10_FormShowsRequestDirection ==
    (Sent /\ Has(input, "yearPillar") /\ input.yearPillar # <<>>)
    => ShownDirection(daYunDirectionInfo(input)) = request.daYunDirectionStr

C10_Witness ==
    /\ Sent
    /\ input.gender = "FEMALE"
    /\ Has(input, "yearPillar")
    /\ input.yearPillar = <<"zi", " ">>
    /\ daYunDirectionInfo(input) = "niXing (yinNan/yangNu)"
    /\ request.daYunDirectionStr = Backward

ConfigurationErrors == {ApiKeyRequired, ApiKeyIllegalChars, BaseUrlRequired}

\* The credential is missing, blank or not pure ASCII, or the base URL is
\* missing or blank.
BadConfiguration(in) ==
    \/ ~Has(in, "apiKey")
    \/ Blank(in.apiKey)
    \/ \E i \in 1..Len(in.apiKey) : in.apiKey[i] \in {"ce", "zi"} \cup YangSet \cup YinSet
    \/ ~Has(in, "apiBaseUrl")
    \/ Blank(in.apiBaseUrl)

ModelBlank(in) == ~Has(in, "modelName") \/ Blank(in.modelName)

\* C4 as stated: a run whose model string is absent or blank is rejected with
\* a local error and makes no outbound call.
C4_BlankModelRejected ==
    (pc # "idle" /\ ModelBlank(input)) => (pc = "thrown" /\ calls = 0)

\* C4 as amended: the form requires the model string (a blank one gets the
\* form's own message and is never passed to onSubmit, like a blank base URL
\* or credential), while generateLifeAnalysis does not: with a sound
\* credential and base URL it puts the default model in place of an absent or
\* blank one and makes the call.
C4_FormRequiresModelServiceDefaults ==
    /\ submitted # NotSubmitted =>
         \A f \in {"modelName", "apiBaseUrl", "apiKey"} : ~Blank(submitted[f])
    /\ \A f \in {"modelName", "apiBaseUrl", "apiKey"} :
         f \in formErrors => Blank(formData[f])
    /\ (pc # "idle" /\ ModelBlank(input) /\ ~BadConfiguration(input))
         => /\ request.sent
            /\ request.model = DefaultModel
            /\ calls = 1

C4_Witness ==
    /\ pc = "fetch"
    /\ Has(input, "modelName")
    /\ input.modelName = <<" ">>
    /\ request.model = DefaultModel
    /\ calls = 1
    /\ "modelName" \in formErrors

\* The ages of a band.
Ages(b) == {a \in 1..200 : b.lo <= a /\ a <= b.hi}

\* The startAge string is the decimal numeral of the number n.
IsNumeral(str, n) ==
    /\ str # <<>>
    /\ \A i \in 1..Len(str) : str[i] \in Digits
    /\ Head(str) # "0"
    /\ digitsValue(str) = n

\* C5: for a start age in 1..100 the bands the request spells out are
\* pairwise disjoint, cover every age from 1 to 100, have an empty pre-cycle
\* band when the start age is 1, and have no bound above 100.
C5_BandsPartitionLifespan ==
    (Sent /\ \E n \in 1..100 : IsNumeral(input.startAge, n)) =>
        LET bands == request.bands
        IN  /\ \A i, j \in DOMAIN bands : i # j => Ages(bands[i]) \cap Ages(bands[j]) = {}
            /\ \A a \in 1..100 : \E i \in DOMAIN bands : a \in Ages(bands[i])
            /\ request.startAgeInt = 1 => Ages(bands[1]) = {}
            /\ \A i \in DOMAIN bands : bands[i].lo <= 100 /\ bands[i].hi <= 100

\* C9: the start age the band boundaries of the request are computed from
\* is at least 1, whatever the startAge string.
C9_StartAgeAtLeastOne ==
    Sent => request.startAgeInt >= 1 /\ request.bands[2].lo >= 1

\* The payload JSON.parse made of the message content, when the run got
\* that far.
PayloadParsed ==
    /\ pc \in {"returned", "thrown"}
    /\ response.ok
    /\ response.body.json
    /\ response.body.value.t = "object"
    /\ LET content == OptGet(OptGet(OptFirst(Get(response.body.value, "choices")), "message"), "content")
       IN  Truthy(content) /\ JSONparse(content).ok
Payload ==
    JSONparse(OptGet(OptGet(OptFirst(Get(response.body.value, "choices")), "message"), "content")).value

HasField(x, k) == x.t = "object" /\ k \in DOMAIN x.v
HasSequence(x, k) == HasField(x, k) /\ x.v[k].t = "array"

\* C2: validation fails with the malformed-response error when chartPoints is
\* absent or no sequence (the error of line 139, or for a null payload the
\* TypeError of the same check), and a payload that holds only an empty
\* chartPoints gives an empty chart, every score 5 and every narrative its
\* placeholder.
C2_ChartPointsRequired ==
    PayloadParsed =>
        /\ ~HasSequence(Payload, "chartPoints") =>
             /\ pc = "thrown"
             /\ result = NoResult
             /\ error = IF Payload.t = "null" THEN NullProperty ELSE ChartPointsMissing
        /\ Payload = JSObj(Field("chartPoints", JSArr(<<>>))) =>
             /\ pc = "returned"
             /\ result.chartData = JSArr(<<>>)
             /\ \A f \in ScoreFields : result.analysis[f] = JSNum(5)
             /\ \A f \in NarrativeFields :
                  /\ result.analysis[f] = Default(f)
                  /\ result.analysis[f].t = "string"
                  /\ result.analysis[f].v.text # ""

C2_Witness ==
    /\ PayloadParsed
    /\ Payload = JSObj(Field("chartPoints", JSArr(<<>>)))
    /\ pc = "returned"
    /\ result.analysis["summaryScore"] = JSNum(5)

\* C6: with chartPoints a sequence validation does not fail, every field
\* that is missing or of the wrong shape (a score that is no number, a
\* narrative that is no text) is its default, and so every score of the
\* result is a number and every narrative a text.
C6_WrongShapeDefaults ==
    (PayloadParsed /\ HasSequence(Payload, "chartPoints")) =>
        /\ pc = "returned"
        /\ \A f \in ScoreFields :
             /\ (~HasField(Payload, f) \/ Payload.v[f].t # "number")
                  => result.analysis[f] = JSNum(5)
             /\ result.analysis[f].t = "number"
        /\ \A f \in NarrativeFields :
             /\ (~HasField(Payload, f) \/ Payload.v[f].t # "string")
                  => result.analysis[f] = Default(f)
             /\ result.analysis[f].t = "string"

\* C7: a request makes at most one outbound call and ends in one outcome:
\* the complete result and no error, or one error and no result, the error
\* being the one of the first step that failed (transport, empty content or
\* malformed response) as it was raised.
C7_OneCallOneOutcome ==
    /\ calls <= 1
    /\ pc \in {"idle", "fetch", "text", "json"} => result = NoResult /\ error = NoError
    /\ pc = "returned" =>
         /\ calls = 1
         /\ error = NoError
         /\ result.returned
         /\ DOMAIN result.analysis = AnalysisFields
         /\ result.chartData.t = "array"
    /\ pc = "thrown" =>
         /\ result = NoResult
         /\ error # NoError
         /\ calls = 0 => error \in ConfigurationErrors
         /\ (calls = 1 /\ response = NoResponse) => error = FetchFailed
         /\ (calls = 1 /\ response # NoResponse /\ ~response.ok)
              => error = ApiRequestFailed(response.status, response.body)
         /\ (calls = 1 /\ response.ok)
              => error \in {BodyNotJson, NullProperty, NoContent, ContentNotJson,
                            ChartPointsMissing}

C7_Witness ==
    /\ pc = "thrown"
    /\ calls = 1
    /\ response.ok
    /\ error = ChartPointsMissing
    /\ result = NoResult

====
